---- MODULE Spec2Model ----
(***************************************************************************)
(* A model of the DNS wire codec and receive loop of nindalf/dns-server.   *)
(*                                                                         *)
(* Bytes are naturals 0..255, byte buffers and Rust strings (their UTF-8   *)
(* bytes) are sequences of bytes.  A fallible Rust call has one of three   *)
(* outcomes: Ok(v), Err(e) with e a ParseError, or a panic (an index or a  *)
(* slice out of range, an unwrap of Err).                                  *)
(***************************************************************************)
EXTENDS Integers, Sequences, FiniteSets

VARIABLES pc, buf, result, packet, response

vars == <<pc, buf, result, packet, response>>

----------------------------------------------------------------------------
(* Outcomes and errors (src/src/error.rs)                                  *)

Ok(v) == [tag |-> "Ok", val |-> v]

Err(e) == [tag |-> "Err", err |-> e]

Panic == [tag |-> "Panic"]

NoResult == [tag |-> "None"]

InvalidLength(n) == [kind |-> "InvalidLength", n |-> n]

InvalidValue(b) == [kind |-> "InvalidValue", n |-> b]

----------------------------------------------------------------------------
(* Fixed-width integer arithmetic                                          *)

Bit(a, i) == (a \div (2 ^ i)) % 2

RECURSIVE OrBits(_, _, _)
OrBits(a, b, i) ==
    IF i = 0 THEN 0
    ELSE (IF Bit(a, i - 1) = 1 \/ Bit(b, i - 1) = 1 THEN 2 ^ (i - 1) ELSE 0)
         + OrBits(a, b, i - 1)

RECURSIVE AndBits(_, _, _)
AndBits(a, b, i) ==
    IF i = 0 THEN 0
    ELSE (IF Bit(a, i - 1) = 1 /\ Bit(b, i - 1) = 1 THEN 2 ^ (i - 1) ELSE 0)
         + AndBits(a, b, i - 1)

\* a | b and a & b on u8 and u16
Or8(a, b) == OrBits(a, b, 8)

And8(a, b) == AndBits(a, b, 8)

Or16(a, b) == OrBits(a, b, 16)

\* a << n and a >> n on u8: bits shifted out are dropped
Shl8(a, n) == (a * (2 ^ n)) % 256

Shr8(a, n) == a \div (2 ^ n)

\* (hi as u16) << 8 | lo as u16
U16FromBytes(hi, lo) == Or16((hi * 256) % 65536, lo)

\* u16::to_be_bytes
to_be_bytes(v) == <<v \div 256, v % 256>>

\* v as u8
as_u8(v) == v % 256

BoolAsU8(b) == IF b THEN 1 ELSE 0

\* &s[from..]: the caller checks from <= Len(s), as the slice would panic
SliceFrom(s, from) == SubSeq(s, from + 1, Len(s))

----------------------------------------------------------------------------
(* Header enumerations (src/src/header.rs)                                 *)

PacketType_try_from(byte) ==
    CASE byte = 0 -> Ok("Query")
      [] byte = 1 -> Ok("Response")
      [] OTHER -> Err(InvalidValue(byte))

\* A conversion that clamps an unknown opcode to the largest known one
OpCode_try_from_Clamped(byte) ==
    CASE byte = 0 -> Ok("Query")
      [] byte = 1 -> Ok("InverseQuery")
      [] OTHER -> Ok("ServerStatus")

OpCode_try_from(byte) ==
    CASE byte = 0 -> Ok("Query")
      [] byte = 1 -> Ok("InverseQuery")
      [] byte = 2 -> Ok("ServerStatus")
      [] OTHER -> Err(InvalidValue(byte))

ResponseCode_try_from(byte) ==
    CASE byte = 0 -> Ok("NoError")
      [] byte = 1 -> Ok("FormatError")
      [] byte = 2 -> Ok("ServFail")
      [] byte = 3 -> Ok("NxDomain")
      [] OTHER -> Err(InvalidValue(byte))

PacketType_as_u8(v) == CASE v = "Query" -> 0 [] v = "Response" -> 1

OpCode_as_u8(v) ==
    CASE v = "Query" -> 0 [] v = "InverseQuery" -> 1 [] v = "ServerStatus" -> 2

ResponseCode_as_u8(v) ==
    CASE v = "NoError" -> 0 [] v = "FormatError" -> 1
      [] v = "ServFail" -> 2 [] v = "NxDomain" -> 3

----------------------------------------------------------------------------
(* DnsHeader (src/src/header.rs)                                           *)

\* DnsHeader::try_from.  bytes[i] panics when i is past the end; the fields
\* are read in source order, so a short buffer panics at the first index it
\* lacks unless an earlier `?` has already returned Err.
DnsHeader_try_from(bytes) ==
    IF Len(bytes) < 3 THEN Panic
    ELSE
    LET id == U16FromBytes(bytes[1], bytes[2])
        qr == PacketType_try_from(Shr8(bytes[3], 7))
        opcode == OpCode_try_from(Shr8(Shl8(bytes[3], 1), 4))
        aa == Shr8(Shl8(bytes[3], 5), 7) # 0
        tc == Shr8(Shl8(bytes[3], 6), 7) # 0
        rd == Shr8(Shl8(bytes[3], 7), 7) # 0
    IN  IF qr.tag = "Err" THEN qr
        ELSE IF opcode.tag = "Err" THEN opcode
        ELSE IF Len(bytes) < 4 THEN Panic
        ELSE
        LET ra == Shr8(bytes[4], 7) # 0
            z == Shr8(Shl8(bytes[4], 1), 5)
            rcode == ResponseCode_try_from(Shr8(Shl8(bytes[4], 4), 4))
        IN  IF rcode.tag = "Err" THEN rcode
            ELSE IF Len(bytes) < 12 THEN Panic
            ELSE Ok([id |-> id, qr |-> qr.val, opcode |-> opcode.val,
                     aa |-> aa, tc |-> tc, rd |-> rd, ra |-> ra, z |-> z,
                     rcode |-> rcode.val,
                     qdcount |-> U16FromBytes(bytes[5], bytes[6]),
                     ancount |-> U16FromBytes(bytes[7], bytes[8]),
                     nscount |-> U16FromBytes(bytes[9], bytes[10]),
                     arcount |-> U16FromBytes(bytes[11], bytes[12])])

\* The first of the two flag bytes
HeaderFlags(h) ==
    Or8(Or8(Or8(Or8(Shl8(PacketType_as_u8(h.qr), 7),
                    Shl8(And8(OpCode_as_u8(h.opcode), 15), 3)),
                Shl8(BoolAsU8(h.aa), 2)),
            Shl8(BoolAsU8(h.tc), 1)),
        BoolAsU8(h.rd))

\* A packing that masks the reserved field to two bits
HeaderRcodeFlags_NarrowZ(h) ==
    Or8(Or8(Shl8(BoolAsU8(h.ra), 7), Shl8(And8(h.z, 3), 4)),
        And8(ResponseCode_as_u8(h.rcode), 15))

\* The second: ra, z, rcode
HeaderRcodeFlags(h) ==
    Or8(Or8(Shl8(BoolAsU8(h.ra), 7), Shl8(And8(h.z, 7), 4)),
        And8(ResponseCode_as_u8(h.rcode), 15))

\* DnsHeader::to_bytes
DnsHeader_to_bytes(h) ==
    to_be_bytes(h.id) \o <<HeaderFlags(h)>> \o <<HeaderRcodeFlags(h)>>
    \o to_be_bytes(h.qdcount) \o to_be_bytes(h.ancount)
    \o to_be_bytes(h.nscount) \o to_be_bytes(h.arcount)

\* A flip that only ever marks the header a response
flip_qr_ToResponse(h) ==
    [h EXCEPT !.qr = "Response"]

\* DnsHeader::flip_qr
flip_qr(h) ==
    [h EXCEPT !.qr = IF h.qr = "Query" THEN "Response" ELSE "Query"]

----------------------------------------------------------------------------
(* Names (src/src/common.rs, src/src/question.rs)                          *)

\* The UTF-8 encoding of U+FFFD, the replacement character
Replacement == <<239, 191, 189>>

\* String::from_utf8_lossy on the bytes of one label: valid text is kept,
\* each invalid byte becomes U+FFFD.  Exact for buffers whose bytes are
\* ASCII or bytes no UTF-8 sequence contains (0xC0, 0xC1, 0xF5..0xFF); the
\* inputs below draw no byte of 0x80..0xBF or 0xC2..0xF4.
RECURSIVE from_utf8_lossy(_)
from_utf8_lossy(bytes) ==
    IF \A i \in 1..Len(bytes) : bytes[i] < 128 THEN bytes
    ELSE LET i == CHOOSE k \in 1..Len(bytes) :
                      bytes[k] >= 128 /\ \A j \in 1..(k - 1) : bytes[j] < 128
         IN  SubSeq(bytes, 1, i - 1) \o Replacement
             \o from_utf8_lossy(SubSeq(bytes, i + 1, Len(bytes)))

\* The loop of Name::try_from, from a non-empty buffer
RECURSIVE Name_loop(_, _)
Name_loop(value, name) ==
    IF Len(value) = 0 THEN Panic
    ELSE LET len == value[1]
         IN  IF len = 0 THEN Ok(name)
             ELSE IF len + 1 > Len(value) THEN Panic
             ELSE Name_loop(SliceFrom(value, len + 1),
                            (IF name # <<>> THEN name \o <<46>> ELSE name)
                            \o from_utf8_lossy(SubSeq(value, 2, len + 1)))

\* impl TryFrom<&[u8]> for Name
Name_try_from(value) ==
    IF value = <<>> THEN Ok(<<>>) ELSE Name_loop(value, <<>>)

\* The loop of QuestionName::try_from (a copy of Name's in the source)
RECURSIVE QuestionName_loop(_, _)
QuestionName_loop(value, name) ==
    IF Len(value) = 0 THEN Panic
    ELSE LET len == value[1]
         IN  IF len = 0 THEN Ok(name)
             ELSE IF len + 1 > Len(value) THEN Panic
             ELSE QuestionName_loop(SliceFrom(value, len + 1),
                            (IF name # <<>> THEN name \o <<46>> ELSE name)
                            \o from_utf8_lossy(SubSeq(value, 2, len + 1)))

\* impl TryFrom<&[u8]> for QuestionName
QuestionName_try_from(value) ==
    IF value = <<>> THEN Ok(<<>>) ELSE QuestionName_loop(value, <<>>)

\* impl From<&str> for Name
Name_from(value) == value

\* str::split('.'): the parts between the dots, one part for a string
\* without dots (the empty string included)
RECURSIVE split_dot(_)
split_dot(s) ==
    IF \A i \in 1..Len(s) : s[i] # 46 THEN <<s>>
    ELSE LET i == CHOOSE k \in 1..Len(s) :
                      s[k] = 46 /\ \A j \in 1..(k - 1) : s[j] # 46
         IN  <<SubSeq(s, 1, i - 1)>> \o split_dot(SubSeq(s, i + 1, Len(s)))

\* The body of the for loop of to_bytes: a length byte, then the part
RECURSIVE PartsToBytes(_)
PartsToBytes(parts) ==
    IF parts = <<>> THEN <<>>
    ELSE <<as_u8(Len(Head(parts)))>> \o Head(parts) \o PartsToBytes(Tail(parts))

\* An encoder that leaves out the terminating zero byte
Name_to_bytes_NoTerminator(name) == PartsToBytes(split_dot(name))

\* Name::to_bytes
Name_to_bytes(name) == PartsToBytes(split_dot(name)) \o <<0>>

\* Name::len
Name_len(name) == Len(name) + 2

\* QuestionName::to_bytes
QuestionName_to_bytes(name) == PartsToBytes(split_dot(name)) \o <<0>>

----------------------------------------------------------------------------
(* Record types and classes (src/src/common.rs, src/src/question.rs)       *)

TypeVariants ==
    <<"A", "Ns", "Md", "Mf", "Cname", "Soa", "Mb", "Mg", "Mr", "Null", "Wks",
      "Ptr", "Hinfo", "Minfo", "Mx", "Txt">>

ClassVariants == <<"In", "Cs", "Ch", "Hs">>

\* variant as u16, for the #[repr(u16)] enumerations
Type_as_u16(v) == CHOOSE c \in 1..Len(TypeVariants) : TypeVariants[c] = v

Class_as_u16(v) == CHOOSE c \in 1..Len(ClassVariants) : ClassVariants[c] = v

DnsType_try_from(value) ==
    IF value \in 1..16 THEN Ok(TypeVariants[value])
    ELSE Err(InvalidValue(as_u8(value)))

DnsClass_try_from(value) ==
    IF value \in 1..4 THEN Ok(ClassVariants[value])
    ELSE Err(InvalidValue(as_u8(value)))

QuestionType_try_from(value) ==
    IF value \in 1..16 THEN Ok(TypeVariants[value])
    ELSE Err(InvalidValue(as_u8(value)))

QuestionClass_try_from(value) ==
    IF value \in 1..4 THEN Ok(ClassVariants[value])
    ELSE Err(InvalidValue(as_u8(value)))

----------------------------------------------------------------------------
(* DnsQuestion (src/src/question.rs)                                       *)

\* impl TryFrom<&[u8]> for DnsQuestion
DnsQuestion_try_from(value) ==
    LET qname == QuestionName_try_from(value)
    IN  IF qname.tag # "Ok" THEN qname
        ELSE IF Len(qname.val) + 2 > Len(value) THEN Panic
        ELSE
        LET rest == SliceFrom(value, Len(qname.val) + 2)
        IN  IF Len(rest) < 2 THEN Panic
            ELSE
            LET qtype == QuestionType_try_from(U16FromBytes(rest[1], rest[2]))
            IN  IF qtype.tag = "Err" THEN qtype
                ELSE IF Len(rest) < 4 THEN Panic
                ELSE
                LET qclass ==
                        QuestionClass_try_from(U16FromBytes(rest[3], rest[4]))
                IN  IF qclass.tag = "Err" THEN qclass
                    ELSE Ok([qname |-> qname.val, qtype |-> qtype.val,
                             qclass |-> qclass.val])

\* DnsQuestion::len
DnsQuestion_len(q) == Len(q.qname) + 2 + 2

\* DnsQuestion::to_bytes
DnsQuestion_to_bytes(q) ==
    QuestionName_to_bytes(q.qname)
    \o <<as_u8(Type_as_u16(q.qtype) \div 256), as_u8(Type_as_u16(q.qtype))>>
    \o <<as_u8(Class_as_u16(q.qclass) \div 256), as_u8(Class_as_u16(q.qclass))>>

----------------------------------------------------------------------------
(* DnsAnswer (src/src/answer.rs)                                           *)

\* RData::A
RData_A(ip) == [variant |-> "A", ip |-> ip]

\* A constructor that takes the length of an IPv6 address for RData::A
DnsAnswer_new_Length16(name, qtype, qclass, ttl, rdata) ==
    [name |-> name, qtype |-> qtype, qclass |-> qclass, ttl |-> ttl,
     rdlength |-> (CASE rdata.variant = "A" -> 16), rdata |-> rdata]

\* DnsAnswer::new: rdlength is computed from the variant
DnsAnswer_new(name, qtype, qclass, ttl, rdata) ==
    [name |-> name, qtype |-> qtype, qclass |-> qclass, ttl |-> ttl,
     rdlength |-> (CASE rdata.variant = "A" -> 4), rdata |-> rdata]

\* DnsAnswer::to_bytes; ttl is an i32, >> is arithmetic and `as u8` keeps
\* the low eight bits
DnsAnswer_to_bytes(a) ==
    Name_to_bytes(a.name)
    \o <<as_u8(Type_as_u16(a.qtype) \div 256), as_u8(Type_as_u16(a.qtype))>>
    \o <<as_u8(Class_as_u16(a.qclass) \div 256), as_u8(Class_as_u16(a.qclass))>>
    \o <<as_u8(a.ttl \div (2 ^ 24)), as_u8(a.ttl \div (2 ^ 16)),
         as_u8(a.ttl \div (2 ^ 8)), as_u8(a.ttl)>>
    \o <<as_u8(a.rdlength \div 256), as_u8(a.rdlength)>>
    \o (CASE a.rdata.variant = "A" -> a.rdata.ip)

----------------------------------------------------------------------------
(* DnsPacket (src/src/packet.rs)                                           *)

NoPacket == [none |-> TRUE]

\* The for loop of DnsPacket::try_from: n iterations left, bytes the slice
\* left by the iteration before, offset the running sum that starts at 12
RECURSIVE questions_loop(_, _, _, _)
questions_loop(bytes, offset, n, questions) ==
    IF n = 0 THEN Ok(questions)
    ELSE IF offset > Len(bytes) THEN Panic
    ELSE LET rest == SliceFrom(bytes, offset)
         IN  IF rest = <<>> THEN Ok(questions)
             ELSE LET question == DnsQuestion_try_from(rest)
                  IN  IF question.tag # "Ok" THEN question
                      ELSE questions_loop(rest,
                                          offset + DnsQuestion_len(question.val),
                                          n - 1,
                                          Append(questions, question.val))

\* DnsPacket::try_from
DnsPacket_try_from(bytes) ==
    LET header == DnsHeader_try_from(bytes)
    IN  IF header.tag # "Ok" THEN header
        ELSE LET questions == questions_loop(bytes, 12, header.val.qdcount, <<>>)
             IN  IF questions.tag # "Ok" THEN questions
                 ELSE Ok([header |-> header.val, questions |-> questions.val,
                          answers |-> <<>>])

\* DnsPacket::add_answer.  ancount += 1 on a u16 of 65535 panics in a build
\* with overflow checks and wraps to 0 in one without: both outcomes.
add_answer(p, answer) ==
    IF p.header.ancount < 65535
    THEN {Ok([p EXCEPT !.header.ancount = @ + 1,
                       !.answers = Append(@, answer)])}
    ELSE {Panic,
          Ok([p EXCEPT !.header.ancount = 0, !.answers = Append(@, answer)])}

RECURSIVE ConcatBytes(_)
ConcatBytes(seqs) ==
    IF seqs = <<>> THEN <<>> ELSE Head(seqs) \o ConcatBytes(Tail(seqs))

\* DnsPacket::to_bytes
DnsPacket_to_bytes(p) ==
    DnsHeader_to_bytes(p.header)
    \o ConcatBytes([i \in 1..Len(p.questions) |-> DnsQuestion_to_bytes(p.questions[i])])
    \o ConcatBytes([i \in 1..Len(p.answers) |-> DnsAnswer_to_bytes(p.answers[i])])

----------------------------------------------------------------------------
(* Bounds and inputs                                                       *)

\* Questions in a datagram's body; the declared count goes one beyond
MaxQuestions == 2

\* Calls of add_answer on one packet
MaxAnswers == 2

\* Labels of a dotted name, and bytes of one label
MaxLabels == 2

MaxLabelLen == 2

\* Bytes of an arbitrary buffer handed to the name decoder
MaxWireLen == 4

\* The largest length a length byte carries: part.len() as u8
U8Max == 255

RECURSIVE SeqsUpTo(_, _)
SeqsUpTo(S, n) ==
    IF n = 0 THEN {<<>>}
    ELSE LET shorter == SeqsUpTo(S, n - 1)
         IN  shorter \cup {Append(s, x) : s \in shorter, x \in S}

Prefixes(s) == {SubSeq(s, 1, n) : n \in 0..Len(s)}

\* Twelve header bytes from their parts
Header12(id, b2, b3, qd, an, ns, ar) == id \o <<b2, b3>> \o qd \o an \o ns \o ar

IdPairs == {<<18, 52>>, <<0, 0>>, <<255, 255>>}

CountPairs == {<<0, 0>>, <<0, 1>>, <<1, 2>>, <<255, 255>>}

\* Flag bytes: those of the repository's tests, opcode 2 with every flag,
\* opcodes 3 and 15
FlagBytesFew == {0, 1, 2, 129, 132, 151, 24, 255}

\* ra/z/rcode bytes: those of the tests, z = 7, rcode 4 and 15
RcodeBytesFew == {0, 128, 131, 112, 243, 4, 255}

HeaderInputs12 ==
    {Header12(<<18, 52>>, b2, b3, <<0, 1>>, <<0, 0>>, <<0, 0>>, <<0, 0>>) :
        b2 \in 0..255, b3 \in RcodeBytesFew}
    \cup
    {Header12(<<18, 52>>, b2, b3, <<0, 1>>, <<0, 0>>, <<0, 0>>, <<0, 0>>) :
        b2 \in FlagBytesFew, b3 \in 0..255}
    \cup
    {Header12(id, b2, b3, c[1], c[2], c[3], c[4]) :
        id \in IdPairs, b2 \in {1, 151, 24}, b3 \in {0, 243, 4},
        c \in CountPairs \X CountPairs \X CountPairs \X CountPairs}

\* Buffers of 0..11 bytes
HeaderInputsShort ==
    UNION {Prefixes(h) \ {h} :
        h \in {Header12(<<18, 52>>, b2, b3, <<0, 1>>, <<0, 0>>, <<0, 0>>, <<0, 0>>) :
                   b2 \in FlagBytesFew, b3 \in RcodeBytesFew}}

HeaderInputs == HeaderInputs12 \cup HeaderInputsShort

\* The wire form of a name given as its labels: RFC 1035, 3.1
RECURSIVE WireLabels(_)
WireLabels(labels) ==
    IF labels = <<>> THEN <<0>>
    ELSE <<Len(Head(labels))>> \o Head(labels) \o WireLabels(Tail(labels))

\* Characters of a name: a letter, a digit, a hyphen
NameChars == {97, 57, 45}

Labels0 == SeqsUpTo(NameChars, MaxLabelLen)

\* A label of 255 bytes, the longest a length byte carries, and one of 256
LongLabel == [i \in 1..U8Max |-> 97]

TooLongLabel == [i \in 1..(U8Max + 1) |-> 97]

RECURSIVE JoinDots(_)
JoinDots(labels) ==
    IF Len(labels) = 1 THEN Head(labels)
    ELSE Head(labels) \o <<46>> \o JoinDots(Tail(labels))

\* Dotted names of 1..MaxLabels labels of 0..MaxLabelLen characters (the
\* empty string is the name of one empty label), the names of the
\* repository's tests and its reply, and names with a longest label
NameStrings ==
    {JoinDots(ls) : ls \in (SeqsUpTo(Labels0, MaxLabels) \ {<<>>})}
    \cup {JoinDots(<<<<97>>, <<99, 111>>>>),
          JoinDots(<<<<101, 120, 97, 109, 112, 108, 101>>, <<99, 111, 109>>>>),
          JoinDots(<<<<115, 117, 98>>, <<101, 120>>, <<99, 111, 109>>>>),
          LongLabel, JoinDots(<<<<97>>, LongLabel>>), JoinDots(<<LongLabel, <<97>>>>),
          TooLongLabel, JoinDots(<<<<97>>, TooLongLabel>>)}

\* Arbitrary short buffers: terminators, label lengths 1..3, a letter, an
\* invalid UTF-8 byte, a compression pointer's first byte
WireBytes == {0, 1, 2, 3, 97, 192, 255}

NameWireInputs ==
    SeqsUpTo(WireBytes, MaxWireLen)
    \cup {WireLabels(<<<<101, 120, 97, 109, 112, 108, 101>>, <<99, 111, 109>>>>),
          WireLabels(<<LongLabel>>)}

\* Names of well-formed questions: the root, "a", "a.bc", "abcd.ef"
QuestionLabels ==
    {<<>>, <<<<97>>>>, <<<<97>>, <<98, 99>>>>, <<<<97, 98, 99, 100>>, <<101, 102>>>>}

\* A question on the wire: name, type, class
WireQuestion(labels, t, c) == WireLabels(labels) \o to_be_bytes(t) \o to_be_bytes(c)

WellFormedQuestions ==
    {WireQuestion(ls, 1, 1) : ls \in QuestionLabels}
    \cup {WireQuestion(<<<<97>>>>, 16, 4)}

\* A complete name followed by 0..4 bytes of type and class, among them
\* codes outside the enumerations
QuestionInputs ==
    {WireLabels(ls) \o tail :
        ls \in QuestionLabels, tail \in SeqsUpTo({0, 1, 4, 17}, 4)}
    \cup SeqsUpTo(WireBytes, MaxWireLen)

RECURSIVE BodiesOf(_)
BodiesOf(n) ==
    IF n = 0 THEN {<<>>}
    ELSE LET shorter == BodiesOf(n - 1)
         IN  shorter \cup {b \o q : b \in shorter, q \in WellFormedQuestions}

Bodies == BodiesOf(MaxQuestions)

\* Bodies no question decoder accepts: a type code of 17, a class code of 0,
\* a label longer than the buffer, a compression pointer, a label of
\* invalid UTF-8
MalformedBodies ==
    {WireQuestion(<<<<97>>>>, 17, 1), WireQuestion(<<<<97>>>>, 1, 0),
     WireQuestion(<<<<97>>>>, 256, 1),
     <<5, 97, 0, 0, 1, 0, 1>>, <<192, 12, 0, 1, 0, 1>>,
     WireQuestion(<<<<255>>>>, 1, 1)}

QueryHeader(qd, an) ==
    Header12(<<18, 52>>, 1, 0, to_be_bytes(qd), to_be_bytes(an), <<0, 0>>, <<0, 0>>)

\* Datagrams: a query header declaring 0..MaxQuestions+1 questions and any
\* answer count, followed by 0..MaxQuestions questions; every truncation of
\* one; malformed bodies; headers with an opcode or rcode out of range
Datagrams ==
    {QueryHeader(qd, an) \o b :
        qd \in 0..(MaxQuestions + 1), an \in {0, 1, 65535}, b \in Bodies}
    \cup UNION {Prefixes(QueryHeader(qd, 0) \o b) :
                    qd \in 0..(MaxQuestions + 1), b \in Bodies}
    \cup {QueryHeader(qd, 0) \o b : qd \in {1, 2}, b \in MalformedBodies}
    \cup {Header12(<<18, 52>>, 25, 0, <<0, 1>>, <<0, 0>>, <<0, 0>>, <<0, 0>>),
          Header12(<<18, 52>>, 1, 4, <<0, 1>>, <<0, 0>>, <<0, 0>>, <<0, 0>>)}

\* The answer the receive loop adds
CodecraftersIo ==
    <<99, 111, 100, 101, 99, 114, 97, 102, 116, 101, 114, 115, 46, 105, 111>>

MainAnswer ==
    DnsAnswer_new(Name_from(CodecraftersIo), "A", "In", 60, RData_A(<<8, 8, 8, 8>>))

Answers ==
    {MainAnswer,
     DnsAnswer_new(Name_from(<<97>>), "Txt", "Hs", 0, RData_A(<<127, 0, 0, 1>>))}

----------------------------------------------------------------------------
(* The codec's operations, each applied to an input drawn at the start     *)

CodecInit(inputs) ==
    /\ pc = "start"
    /\ buf \in inputs
    /\ result = NoResult
    /\ packet = NoPacket
    /\ response = <<>>

\* DnsHeader::try_from(buf)
HeaderDecode ==
    /\ pc = "start"
    /\ result' = DnsHeader_try_from(buf)
    /\ pc' = "header_decoded"
    /\ UNCHANGED <<buf, packet, response>>

\* header.to_bytes() on the decoded header
HeaderEncode ==
    /\ pc = "header_decoded"
    /\ result.tag = "Ok"
    /\ response' = DnsHeader_to_bytes(result.val)
    /\ pc' = "header_encoded"
    /\ UNCHANGED <<buf, result, packet>>

\* header.flip_qr() on the encoded header, and once more on the flipped
\* one; response keeps the encoding made before the first flip
HeaderFlip ==
    /\ pc \in {"header_encoded", "header_flipped"}
    /\ result' = Ok(flip_qr(result.val))
    /\ pc' = IF pc = "header_encoded" THEN "header_flipped" ELSE "header_restored"
    /\ UNCHANGED <<buf, packet, response>>

HeaderInit == CodecInit(HeaderInputs)

HeaderNext == HeaderDecode \/ HeaderEncode \/ HeaderFlip

SpecHeader == HeaderInit /\ [][HeaderNext]_vars

\* DnsPacket::try_from(buf)
PacketDecode ==
    /\ pc = "start"
    /\ result' = DnsPacket_try_from(buf)
    /\ packet' = IF result'.tag = "Ok" THEN result'.val ELSE NoPacket
    /\ pc' = "decoded"
    /\ UNCHANGED <<buf, response>>

\* packet.add_answer(answer) on a decoded packet, up to MaxAnswers times
PacketAddAnswer ==
    /\ pc \in {"decoded", "answered"}
    /\ packet # NoPacket
    /\ Len(packet.answers) < MaxAnswers
    /\ \E answer \in Answers : \E outcome \in add_answer(packet, answer) :
          IF outcome.tag = "Ok"
          THEN pc' = "answered" /\ packet' = outcome.val
          ELSE pc' = "add_panicked" /\ packet' = NoPacket
    /\ UNCHANGED <<buf, result, response>>

\* packet.to_bytes()
PacketEncode ==
    /\ pc \in {"decoded", "answered"}
    /\ packet # NoPacket
    /\ response' = DnsPacket_to_bytes(packet)
    /\ pc' = "encoded"
    /\ UNCHANGED <<buf, result, packet>>

PacketInit == CodecInit(Datagrams)

PacketNext == HeaderDecode \/ PacketDecode \/ PacketAddAnswer \/ PacketEncode

SpecPacket == PacketInit /\ [][PacketNext]_vars

\* Name::try_from(buf)
NameDecode ==
    /\ pc = "start"
    /\ result' = Name_try_from(buf)
    /\ pc' = "name_decoded"
    /\ UNCHANGED <<buf, packet, response>>

\* name.to_bytes() on the decoded name
NameEncode ==
    /\ pc = "name_decoded"
    /\ result.tag = "Ok"
    /\ response' = Name_to_bytes(result.val)
    /\ pc' = "name_encoded"
    /\ UNCHANGED <<buf, result, packet>>

\* Name::from(buf) on a dotted string, then to_bytes()
NameFromStrEncode ==
    /\ pc = "str"
    /\ result' = Ok(Name_from(buf))
    /\ response' = Name_to_bytes(Name_from(buf))
    /\ pc' = "str_encoded"
    /\ UNCHANGED <<buf, packet>>

\* Name::try_from on the bytes to_bytes() produced
NameRedecode ==
    /\ pc = "str_encoded"
    /\ result' = Name_try_from(response)
    /\ pc' = "str_redecoded"
    /\ UNCHANGED <<buf, packet, response>>

\* A buffer for the decoder, or a dotted string for the encoder
NameInit ==
    \/ CodecInit(NameWireInputs)
    \/ /\ pc = "str"
       /\ buf \in NameStrings
       /\ result = NoResult
       /\ packet = NoPacket
       /\ response = <<>>

NameNext == NameDecode \/ NameEncode \/ NameFromStrEncode \/ NameRedecode

SpecName == NameInit /\ [][NameNext]_vars

\* DnsQuestion::try_from(buf)
QuestionDecode ==
    /\ pc = "start"
    /\ result' = DnsQuestion_try_from(buf)
    /\ pc' = "question_decoded"
    /\ UNCHANGED <<buf, packet, response>>

\* question.to_bytes() on the decoded question
QuestionEncode ==
    /\ pc = "question_decoded"
    /\ result.tag = "Ok"
    /\ response' = DnsQuestion_to_bytes(result.val)
    /\ pc' = "question_encoded"
    /\ UNCHANGED <<buf, result, packet>>

QuestionInit == CodecInit(QuestionInputs)

QuestionNext == QuestionDecode \/ QuestionEncode

SpecQuestion == QuestionInit /\ [][QuestionNext]_vars

\* 16-bit codes as their two wire bytes: every code up to 600, codes with
\* a high byte of 128 or 255, the largest code
EnumCodeInputs ==
    {to_be_bytes(c) : c \in 0..600}
    \cup {<<hi, lo>> : hi \in {128, 255}, lo \in 0..20}
    \cup {<<255, 255>>}

\* The u16 read from the two bytes, as DnsQuestion::try_from reads it
CodeOf(bytes) == U16FromBytes(bytes[1], bytes[2])

\* DnsType::try_from(code)
DnsTypeConvert ==
    /\ pc = "start"
    /\ result' = DnsType_try_from(CodeOf(buf))
    /\ pc' = "dns_type"
    /\ UNCHANGED <<buf, packet, response>>

\* DnsClass::try_from(code)
DnsClassConvert ==
    /\ pc = "start"
    /\ result' = DnsClass_try_from(CodeOf(buf))
    /\ pc' = "dns_class"
    /\ UNCHANGED <<buf, packet, response>>

\* QuestionType::try_from(code)
QuestionTypeConvert ==
    /\ pc = "start"
    /\ result' = QuestionType_try_from(CodeOf(buf))
    /\ pc' = "question_type"
    /\ UNCHANGED <<buf, packet, response>>

\* QuestionClass::try_from(code)
QuestionClassConvert ==
    /\ pc = "start"
    /\ result' = QuestionClass_try_from(CodeOf(buf))
    /\ pc' = "question_class"
    /\ UNCHANGED <<buf, packet, response>>

EnumInit == CodecInit(EnumCodeInputs)

EnumNext ==
    \/ DnsTypeConvert
    \/ DnsClassConvert
    \/ QuestionTypeConvert
    \/ QuestionClassConvert

SpecEnum == EnumInit /\ [][EnumNext]_vars

\* Names of answers: the reply's and a test's, the empty name, one label,
\* a trailing dot, a label of 255 bytes
AnswerNames ==
    {CodecraftersIo, JoinDots(<<<<97>>, <<99, 111>>>>), <<>>, <<97>>,
     <<97, 46>>, LongLabel}

\* TTLs over the range of an i32, negative ones included
AnswerTtls == {0, 60, 255, 256, 65536, 16777216, 2147483647, -1, -256, -2147483647 - 1}

AnswerAddresses == {<<8, 8, 8, 8>>, <<0, 0, 0, 0>>, <<255, 1, 0, 4>>}

\* DnsAnswer::new(name, qtype, qclass, ttl, rdata) on the name in buf
AnswerNew ==
    /\ pc = "start"
    /\ \E t \in 1..Len(TypeVariants), c \in 1..Len(ClassVariants),
          ttl \in AnswerTtls, ip \in AnswerAddresses :
          result' = Ok(DnsAnswer_new(Name_from(buf), TypeVariants[t],
                                     ClassVariants[c], ttl, RData_A(ip)))
    /\ pc' = "answer_built"
    /\ UNCHANGED <<buf, packet, response>>

\* answer.to_bytes()
AnswerEncode ==
    /\ pc = "answer_built"
    /\ response' = DnsAnswer_to_bytes(result.val)
    /\ pc' = "answer_encoded"
    /\ UNCHANGED <<buf, result, packet>>

AnswerInit == CodecInit(AnswerNames)

AnswerNext == AnswerNew \/ AnswerEncode

SpecAnswer == AnswerInit /\ [][AnswerNext]_vars

----------------------------------------------------------------------------
(* The receive loop (src/src/main.rs)                                      *)

Init ==
    /\ pc = "recv"
    /\ buf = <<>>
    /\ result = NoResult
    /\ packet = NoPacket
    /\ response = <<>>

\* recv_from returns a datagram; DnsPacket::try_from(received).unwrap()
\* panics on Err as it does when the decoder itself panics
Recv ==
    /\ pc = "recv"
    /\ \E datagram \in Datagrams :
          /\ buf' = datagram
          /\ result' = DnsPacket_try_from(datagram)
    /\ IF result'.tag = "Ok"
       THEN pc' = "flip" /\ packet' = result'.val
       ELSE pc' = "decode_panicked" /\ packet' = NoPacket
    /\ response' = <<>>

\* recv_from returns Err: the loop breaks and main returns
RecvError ==
    /\ pc = "recv"
    /\ pc' = "exited"
    /\ UNCHANGED <<buf, result, packet, response>>

\* packet.header.flip_qr()
FlipQr ==
    /\ pc = "flip"
    /\ packet' = [packet EXCEPT !.header = flip_qr(@)]
    /\ pc' = "count"
    /\ UNCHANGED <<buf, result, response>>

\* A loop that leaves the declared question count in the header
SetQdcount_Skip ==
    /\ pc = "count"
    /\ pc' = "answer"
    /\ UNCHANGED <<buf, result, packet, response>>

\* packet.header.qdcount = packet.questions.len() as u16
SetQdcount ==
    /\ pc = "count"
    /\ packet' = [packet EXCEPT !.header.qdcount = Len(packet.questions) % 65536]
    /\ pc' = "answer"
    /\ UNCHANGED <<buf, result, response>>

\* packet.add_answer(answer) with the fixed answer
AddAnswer ==
    /\ pc = "answer"
    /\ \E outcome \in add_answer(packet, MainAnswer) :
          IF outcome.tag = "Ok"
          THEN pc' = "send" /\ packet' = outcome.val
          ELSE pc' = "add_panicked" /\ packet' = NoPacket
    /\ UNCHANGED <<buf, result, response>>

\* packet.to_bytes() and send_to
Send ==
    /\ pc = "send"
    /\ response' = DnsPacket_to_bytes(packet)
    /\ pc' = "sent"
    /\ UNCHANGED <<buf, result, packet>>

\* send_to returns Err: expect panics
SendError ==
    /\ pc = "send"
    /\ response' = DnsPacket_to_bytes(packet)
    /\ pc' = "send_panicked"
    /\ UNCHANGED <<buf, result, packet>>

\* The end of the match arm: the iteration's values are dropped and the
\* loop receives again
Loop ==
    /\ pc = "sent"
    /\ pc' = "recv"
    /\ buf' = <<>>
    /\ result' = NoResult
    /\ packet' = NoPacket
    /\ response' = <<>>

Next ==
    \/ Recv
    \/ RecvError
    \/ FlipQr
    \/ SetQdcount
    \/ AddAnswer
    \/ Send
    \/ SendError
    \/ Loop

Spec == Init /\ [][Next]_vars

----------------------------------------------------------------------------
(* Header claims                                                           *)

\* The fields of the wire layout (RFC 1035, 4.1.1), read off the bytes
OpcodeField(bytes) == (bytes[3] \div 8) % 16

RcodeField(bytes) == bytes[4] % 16

LegalHeaderBytes(bytes) ==
    /\ Len(bytes) = 12
    /\ OpcodeField(bytes) <= 2
    /\ RcodeField(bytes) <= 3

\* C1: every 12-byte header whose opcode field is 0..2 and whose response
\* code field is 0..3 decodes, and encoding the decoded header gives back
\* the same 12 bytes.
C1_HeaderRoundTrip ==
    LegalHeaderBytes(buf) =>
        /\ pc = "header_decoded" => result.tag = "Ok"
        /\ pc = "header_encoded" => response = buf

\* A response with opcode 2, every flag set, z = 7 and rcode 3 went
\* through decode and encode.
C1_Witness ==
    /\ pc = "header_encoded"
    /\ LegalHeaderBytes(buf)
    /\ buf[3] = 151
    /\ buf[4] = 243
    /\ buf[5] = 255
    /\ response = buf

\* C13: flip_qr changes the packet type and no other field of the header;
\* the encodings before and after it differ in bit 7 of byte 2 and in no
\* other bit; a second flip gives back the original header and encoding.
C13_FlipQrFrame ==
    [][HeaderFlip =>
          LET h == result.val
              g == result'.val
              before == DnsHeader_to_bytes(h)
              after == DnsHeader_to_bytes(g)
          IN  /\ g.qr # h.qr
              /\ \A f \in DOMAIN h \ {"qr"} : g[f] = h[f]
              /\ Len(before) = 12 /\ Len(after) = 12
              /\ \A i \in (1..12) \ {3} : after[i] = before[i]
              /\ after[3] % 128 = before[3] % 128
              /\ after[3] \div 128 # before[3] \div 128
              /\ pc = "header_encoded" => before = response
              /\ pc = "header_flipped" =>
                    /\ after = response
                    /\ result' = DnsHeader_try_from(buf)]_vars

\* A decoded query with opcode 2, three flags set and nonzero counts was
\* flipped to a response and back.
C13_Witness ==
    /\ pc = "header_restored"
    /\ buf[3] = 23
    /\ buf[4] = 243
    /\ result.val.qr = "Query"
    /\ result.val.opcode = "ServerStatus"
    /\ result.val.z = 7
    /\ response = buf

\* C14: decoding 12 bytes fails exactly when the opcode field is above 2 or
\* the response code field is above 3, whatever the other bits are; the
\* error is InvalidValue of the field as received, the opcode's when both
\* are out of range, since it is converted first.
C14_InvalidValueIffOutOfRange ==
    (pc = "header_decoded" /\ Len(buf) = 12) =>
        LET op == OpcodeField(buf)
            rc == RcodeField(buf)
        IN  /\ (op <= 2 /\ rc <= 3) <=> result.tag = "Ok"
            /\ op > 2 => result = Err(InvalidValue(op))
            /\ (op <= 2 /\ rc > 3) => result = Err(InvalidValue(rc))

\* A response with opcode 2, every flag set, nonzero counts and response
\* code 4 was rejected with that code.
C14_Witness ==
    /\ pc = "header_decoded"
    /\ Len(buf) = 12
    /\ buf[3] = 151
    /\ buf[4] = 4
    /\ buf[5] = 255
    /\ result = Err(InvalidValue(4))

----------------------------------------------------------------------------
(* Packet claims                                                           *)

\* C2: a buffer of 0..11 bytes makes header decode and message decode
\* return Err(ParseError::InvalidLength): no panic, no other outcome.
C2_ShortBufferInvalidLength ==
    (pc \in {"header_decoded", "decoded"} /\ Len(buf) < 12) =>
        (result.tag = "Err" /\ result.err.kind = "InvalidLength")

\* The reference reading of a body (RFC 1035, 4.1.2): the name that starts
\* at byte i, its labels joined by dots into name; end is the index of its
\* terminator, 0 when the buffer ends first
RECURSIVE RefName(_, _, _)
RefName(bytes, i, name) ==
    IF i > Len(bytes) THEN [end |-> 0, name |-> name]
    ELSE IF bytes[i] = 0 THEN [end |-> i, name |-> name]
    ELSE IF i + bytes[i] > Len(bytes) THEN [end |-> 0, name |-> name]
    ELSE RefName(bytes, i + bytes[i] + 1,
                 (IF name = <<>> THEN <<>> ELSE name \o <<46>>)
                 \o SubSeq(bytes, i + 1, i + bytes[i]))

\* What stands in the reference reading for bytes that are no complete
\* question with a known type and class
BadQuestion == [qname |-> <<>>, qtype |-> "bad", qclass |-> "bad"]

\* The questions a body holds, one after the other
RECURSIVE RefQuestions(_)
RefQuestions(body) ==
    IF body = <<>> THEN <<>>
    ELSE LET n == RefName(body, 1, <<>>)
         IN  IF n.end = 0 \/ n.end + 4 > Len(body) THEN <<BadQuestion>>
             ELSE LET t == body[n.end + 1] * 256 + body[n.end + 2]
                      c == body[n.end + 3] * 256 + body[n.end + 4]
                  IN  IF t \notin 1..16 \/ c \notin 1..4 THEN <<BadQuestion>>
                      ELSE <<[qname |-> n.name, qtype |-> TypeVariants[t],
                              qclass |-> ClassVariants[c]]>>
                           \o RefQuestions(SliceFrom(body, n.end + 4))

QdcountField(bytes) == bytes[5] * 256 + bytes[6]

AncountField(bytes) == bytes[7] * 256 + bytes[8]

Body(bytes) == SliceFrom(bytes, 12)

\* A legal header followed by complete well-formed questions and nothing else
WellFormedMessage(bytes) ==
    /\ Len(bytes) >= 12
    /\ LegalHeaderBytes(SubSeq(bytes, 1, 12))
    /\ \A i \in 1..Len(RefQuestions(Body(bytes))) :
          RefQuestions(Body(bytes))[i].qtype # "bad"

\* C4: a header with qdcount = k followed by exactly k well-formed
\* questions decodes to exactly those k questions, in order.
C4_AllQuestionsDecoded ==
    (/\ pc = "decoded"
     /\ WellFormedMessage(buf)
     /\ Len(RefQuestions(Body(buf))) = QdcountField(buf)) =>
        (result.tag = "Ok" /\ result.val.questions = RefQuestions(Body(buf)))

\* C5: a header that declares k questions followed by only j < k complete
\* questions decodes to Ok with exactly those j questions.
C5_PartialQuestionsDecoded ==
    (/\ pc = "decoded"
     /\ WellFormedMessage(buf)
     /\ Len(RefQuestions(Body(buf))) < QdcountField(buf)) =>
        (result.tag = "Ok" /\ result.val.questions = RefQuestions(Body(buf)))

\* C6: in every state reached by decode and any number of add_answer calls,
\* header.ancount equals the number of answers.
C6_AncountIsAnswerCount ==
    (pc \in {"decoded", "answered"} /\ packet # NoPacket) =>
        packet.header.ancount = Len(packet.answers)

----------------------------------------------------------------------------
(* Name and question claims                                                *)

\* C8: the wire name that is a single zero byte decodes to the empty
\* string, and encoding the decoded name gives exactly one byte, 0.
C8_EmptyNameRoundTrip ==
    (buf = <<0>> /\ pc \in {"name_decoded", "name_encoded"}) =>
        /\ result = Ok(<<>>)
        /\ pc = "name_encoded" => response = <<0>>

IsNameChar(b) ==
    \/ b \in 48..57
    \/ b \in 65..90
    \/ b \in 97..122
    \/ b = 45

\* s has a run of more than n bytes without a dot
HasRunOver(s, n) ==
    \E i \in 1..Len(s) :
        /\ i + n <= Len(s)
        /\ \A j \in i..(i + n) : s[j] # 46

\* s has a label of length 0: it is empty, starts or ends with a dot, or
\* has two dots in a row
HasEmptyLabel(s) ==
    \/ s = <<>>
    \/ s[1] = 46
    \/ s[Len(s)] = 46
    \/ \E i \in 1..(Len(s) - 1) : s[i] = 46 /\ s[i + 1] = 46

\* A dotted name of alphanumeric or hyphen labels of length 0..255
DottedName(s) ==
    /\ \A i \in 1..Len(s) : IsNameChar(s[i]) \/ s[i] = 46
    /\ ~HasRunOver(s, U8Max)

\* C9 as stated: every dotted name of labels of length 0..255, empty labels
\* included, is returned by encode then decode.
C9_NameRoundTripAnyLabels ==
    (pc = "str_redecoded" /\ DottedName(buf)) => result = Ok(buf)

\* C9, amended: the empty name, and every dotted name whose labels each
\* have length 1..255, is returned by encode then decode.
C9_NameRoundTrip ==
    (/\ pc = "str_redecoded"
     /\ DottedName(buf)
     /\ (buf = <<>> \/ ~HasEmptyLabel(buf))) => result = Ok(buf)

\* A name of two labels, the second of 255 bytes, went through encode and
\* decode.
C9_Witness ==
    /\ pc = "str_redecoded"
    /\ Len(buf) = U8Max + 2
    /\ buf[1] = 97
    /\ buf[2] = 46
    /\ ~HasEmptyLabel(buf)
    /\ DottedName(buf)
    /\ result = Ok(buf)

\* C10: a complete terminated name followed by 0..3 bytes makes question
\* decode return Err(ParseError::InvalidLength).
C10_ShortQuestionInvalidLength ==
    (/\ pc = "question_decoded"
     /\ RefName(buf, 1, <<>>).end # 0
     /\ Len(buf) - RefName(buf, 1, <<>>).end <= 3) =>
        (result.tag = "Err" /\ result.err.kind = "InvalidLength")

----------------------------------------------------------------------------
(* Receive loop claims                                                     *)

\* C3: whatever datagram arrives, decode returns a message or a ParseError
\* and the process does not panic on it.
C3_NoDatagramPanics ==
    /\ result.tag # "Panic"
    /\ pc # "decode_panicked"

----------------------------------------------------------------------------
(* Enumeration claims                                                      *)

\* The code of the input, read off its two bytes
WireCode(bytes) == bytes[1] * 256 + bytes[2]

\* C11: a record type converts exactly from the codes 1..16 and a record
\* class exactly from 1..4, to the variant with that code; every other code,
\* 0 and the codes from 256 on included, fails with InvalidValue carrying
\* the code itself.
C11_CodeConversion ==
    /\ pc \in {"dns_type", "question_type"} =>
          IF WireCode(buf) \in 1..16
          THEN result.tag = "Ok" /\ Type_as_u16(result.val) = WireCode(buf)
          ELSE result = Err(InvalidValue(WireCode(buf)))
    /\ pc \in {"dns_class", "question_class"} =>
          IF WireCode(buf) \in 1..4
          THEN result.tag = "Ok" /\ Class_as_u16(result.val) = WireCode(buf)
          ELSE result = Err(InvalidValue(WireCode(buf)))

----------------------------------------------------------------------------
(* Answer claims                                                           *)

\* The bytes of the name in an answer's encoding: a length byte per label
\* and the terminator
EncodedNameLen(name) == Len(name) + 2

\* Four big-endian bytes read as an i32
I32FromBytes(b1, b2, b3, b4) ==
    (IF b1 >= 128 THEN b1 - 256 ELSE b1) * 16777216 + b2 * 65536 + b3 * 256 + b4

\* C12: in the encoding of an answer built by the constructor, the name and
\* the type and class are followed by the four TTL bytes, and the two bytes
\* after them, read big-endian, count the bytes from there to the end of
\* the encoding, which are the resource data.
C12_RdlengthMatchesRdata ==
    pc = "answer_encoded" =>
        LET at == EncodedNameLen(buf) + 4
        IN  /\ Len(response) >= at + 6
            /\ I32FromBytes(response[at + 1], response[at + 2],
                            response[at + 3], response[at + 4]) = result.val.ttl
            /\ response[at + 5] * 256 + response[at + 6] = Len(response) - (at + 6)
            /\ SubSeq(response, at + 7, Len(response)) = result.val.rdata.ip

\* The answer of the receive loop was encoded: codecrafters.io, A, IN, TTL
\* 60, 8.8.8.8.
C12_Witness ==
    /\ pc = "answer_encoded"
    /\ buf = CodecraftersIo
    /\ response = <<12, 99, 111, 100, 101, 99, 114, 97, 102, 116, 101, 114, 115,
                    2, 105, 111, 0,
                    0, 1, 0, 1, 0, 0, 0, 60, 0, 4, 8, 8, 8, 8>>

====
